---- MODULE Spec2Model ----
(***************************************************************************)
(* Schedule parsing and rendering engine of kdb-parse-core                 *)
(* (src/parse_twinc.py): the term engine (raw_module_to_terms,             *)
(* parsed_module, check_table), the period engine (the clause/span loop of *)
(* subject_to_class_dict, parse_timetable) and the batch driver            *)
(* convert_csv_to_twinc_json.                                              *)
(*                                                                         *)
(* A Python str is a sequence of characters.  TLA+ strings are ASCII, so   *)
(* every character of the catalogue's alphabet is written as one ASCII     *)
(* name:                                                                   *)
(*   weekdays      "Mon" "Tue" "Wed" "Thu" "Fri" "Sat" "Sun"               *)
(*                 for U+6708 U+706B U+6C34 U+6728 U+91D1 U+571F U+65E5    *)
(*   seasons       "Haru" (spring, U+6625)   "Aki" (fall, U+79CB)          *)
(*   sub-terms     "A" "B" "C"                                             *)
(*   vacation      "Ka" "Ki" "Kyu" "Gyo" "Chu": the five characters of     *)
(*                 the summer-break symbol; the spring-break symbol is     *)
(*                 "Haru" "Ki" "Kyu" "Gyo" "Chu"                           *)
(*   markers       "Shu" "Chu" (intensive), "Ou" "Dan" (negotiable),       *)
(*                 "Zui" "Ji" (as needed), "Tsu" "Nen" (year-round)        *)
(*   separators    " " (clauses, groups), "," (spans), "~" (the day        *)
(*                 separator U+30FB), "-" (ranges)                         *)
(*   digits        "0" .. "9"                                              *)
(*   "X"           a character of no vocabulary                            *)
(* so the token written U+6708 "1" in the source is <<"Mon", "1">> here.   *)
(***************************************************************************)
EXTENDS Integers, Sequences, FiniteSets

VARIABLES
    pc,               \* "ready" | "parsed" | "returned" | "raised"
    op,               \* the entry point that is called
    args,             \* its arguments
    result,           \* the value it returned
    exc,              \* the exception that left it, or "none"
    boolean_periods,  \* subject_to_class_dict's local list of PeriodTable
    terms,            \* the list object handed to parsed_module
    output_file       \* [written |-> FALSE], or what convert_csv_to_twinc_json wrote

vars == <<pc, op, args, result, exc, boolean_periods, terms, output_file>>

----------------------------------------------------------------------------
(* Vocabulary, parse_twinc.py lines 31-36 *)

WEEKDAY_LIST == << <<"Mon">>, <<"Tue">>, <<"Wed">>, <<"Thu">>, <<"Fri">>,
                   <<"Sat">>, <<"Sun">> >>

SEASONS == << <<"Haru">>, <<"Aki">> >>

SUMMER_BREAK == <<"Ka", "Ki", "Kyu", "Gyo", "Chu">>

SPRING_BREAK == <<"Haru", "Ki", "Kyu", "Gyo", "Chu">>

MODULE_LIST == << <<"Haru", "A">>, <<"Haru", "B">>, <<"Haru", "C">>,
                  <<"Aki", "A">>, <<"Aki", "B">>, <<"Aki", "C">>,
                  SUMMER_BREAK, SPRING_BREAK >>

SPRING_MODULE_LIST == << <<"Haru", "A">>, <<"Haru", "B">>, <<"Haru", "C">> >>

FALL_MODULE_LIST == << <<"Aki", "A">>, <<"Aki", "B">>, <<"Aki", "C">> >>

SPECIAL_MODULE_LIST == << SUMMER_BREAK, SPRING_BREAK >>

FOCUS_MARK == <<"Shu", "Chu">>

NEGOTIABLE_MARK == <<"Ou", "Dan">>

ASNEEDED_MARK == <<"Zui", "Ji">>

YEAR_ROUND == <<"Tsu", "Nen">>

NDays == 7

NPeriods == 8

----------------------------------------------------------------------------
(* Python built-ins the engine uses *)

DigitChars == <<"0", "1", "2", "3", "4", "5", "6", "7", "8", "9">>

IsDigit(c) == \E k \in 1..10 : DigitChars[k] = c

DigitVal(c) == (CHOOSE k \in 1..10 : DigitChars[k] = c) - 1

\* x in lst
In(x, lst) == \E k \in 1..Len(lst) : lst[k] = x

\* lst.index(x), 0-based; used only where x in lst
Index(lst, x) == (CHOOSE k \in 1..Len(lst) :
                     lst[k] = x /\ \A m \in 1..(k - 1) : lst[m] # x) - 1

\* int(s) succeeds on a non-empty string of decimal digits
IntOk(s) == Len(s) > 0 /\ \A k \in 1..Len(s) : IsDigit(s[k])

RECURSIVE IntVal(_)
IntVal(s) ==
    IF Len(s) = 0 THEN 0
    ELSE 10 * IntVal(SubSeq(s, 1, Len(s) - 1)) + DigitVal(s[Len(s)])

\* str(n) for n >= 0
RECURSIVE str(_)
str(n) ==
    IF n < 10 THEN <<DigitChars[n + 1]>>
    ELSE str(n \div 10) \o <<DigitChars[(n % 10) + 1]>>

\* s.split(sep) for a one-character separator
RECURSIVE SplitFrom(_, _, _)
SplitFrom(s, sep, cur) ==
    IF Len(s) = 0 THEN <<cur>>
    ELSE IF Head(s) = sep THEN <<cur>> \o SplitFrom(Tail(s), sep, <<>>)
    ELSE SplitFrom(Tail(s), sep, Append(cur, Head(s)))

Split(s, sep) == SplitFrom(s, sep, <<>>)

\* s.find(sub) > -1
Contains(s, sub) ==
    \E k \in 1..(Len(s) - Len(sub) + 1) : SubSeq(s, k, k + Len(sub) - 1) = sub

\* "".join(parts)
RECURSIVE Join(_)
Join(parts) == IF Len(parts) = 0 THEN <<>> ELSE Head(parts) \o Join(Tail(parts))

\* any(table)
AnyTrue(table) == \E k \in 1..Len(table) : table[k]

----------------------------------------------------------------------------
(* Period engine, render *)

create_timetable == [i \in 1..NDays |-> [j \in 1..NPeriods |-> FALSE]]

\* the comprehension of lines 155-160, from cell k = 8 * i + j on
RECURSIVE CellTokens(_, _)
CellTokens(period, k) ==
    IF k >= NDays * NPeriods THEN <<>>
    ELSE LET i == k \div NPeriods
             j == k % NPeriods
         IN  (IF period[i + 1][j + 1]
                 THEN <<WEEKDAY_LIST[i + 1] \o str(j + 1)>>
                 ELSE <<>>)
             \o CellTokens(period, k + 1)

\* parse_timetable with the negotiable flag tested before the intensive flag
parse_timetable_negotiable_first(table) ==
    IF table.period = create_timetable
    THEN IF table.negotiable THEN <<NEGOTIABLE_MARK>>
         ELSE IF table.focus THEN <<FOCUS_MARK>>
         ELSE <<ASNEEDED_MARK>>
    ELSE CellTokens(table.period, 0)

\* parse_timetable with the two loops of the comprehension exchanged
RECURSIVE CellTokensColumnMajor(_, _)
CellTokensColumnMajor(period, k) ==
    IF k >= NDays * NPeriods THEN <<>>
    ELSE LET j == k \div NDays
             i == k % NDays
         IN  (IF period[i + 1][j + 1]
                 THEN <<WEEKDAY_LIST[i + 1] \o str(j + 1)>>
                 ELSE <<>>)
             \o CellTokensColumnMajor(period, k + 1)

parse_timetable_column_major(table) ==
    IF table.period = create_timetable
    THEN IF table.focus THEN <<FOCUS_MARK>>
         ELSE IF table.negotiable THEN <<NEGOTIABLE_MARK>>
         ELSE <<ASNEEDED_MARK>>
    ELSE CellTokensColumnMajor(table.period, 0)

parse_timetable(table) ==
    IF table.period = create_timetable
    THEN IF table.focus THEN <<FOCUS_MARK>>
         ELSE IF table.negotiable THEN <<NEGOTIABLE_MARK>>
         ELSE <<ASNEEDED_MARK>>
    ELSE CellTokens(table.period, 0)

----------------------------------------------------------------------------
(* Term engine, render of one season table *)

check_table_raises(table) == ~AnyTrue(table)

\* check_table joining the letters of the true entries in the order C, B, A
check_table_reversed(table, season) ==
    season \o Join([k \in 1..3 |->
                      IF table[4 - k] THEN <<(<<"C", "B", "A">>)[k]>> ELSE <<>>])

check_table(table, season) ==
    season \o Join([k \in 1..3 |->
                      IF table[k] THEN <<(<<"A", "B", "C">>)[k]>> ELSE <<>>])

----------------------------------------------------------------------------
(* Period engine, parse: the clause and span loops of subject_to_class_dict *)

IsDigitOrHyphen(c) == IsDigit(c) \/ c = "-"

\* re.sub("[0-9\\-]", "", p)
StripDigitsHyphen(p) == SelectSeq(p, LAMBDA c : ~IsDigitOrHyphen(c))

\* re.sub("[^0-9\\-]", "", p)
KeepDigitsHyphen(p) == SelectSeq(p, LAMBDA c : IsDigitOrHyphen(c))

\* SpanDays taking a piece for a weekday when its first character is one
SpanDays_first_char(p) ==
    LET pieces == Split(StripDigitsHyphen(p), "~")
        known == SelectSeq(pieces,
                           LAMBDA x : Len(x) > 0 /\ In(<<x[1]>>, WEEKDAY_LIST))
    IN  [k \in 1..Len(known) |-> Index(WEEKDAY_LIST, <<known[k][1]>>)]

\* days of one span (lines 205-209): the weekday ordinals, 0-based, of the
\* pieces between day separators that are weekday symbols
SpanDays(p) ==
    LET pieces == Split(StripDigitsHyphen(p), "~")
        known == SelectSeq(pieces, LAMBDA x : In(x, WEEKDAY_LIST))
    IN  [k \in 1..Len(known) |-> Index(WEEKDAY_LIST, known[k])]

\* SpanTimes with range(start_time, end_time): the end left out
SpanTimes_exclusive_end(time_str) ==
    IF Contains(time_str, <<"-">>)
    THEN LET time_str_array == Split(time_str, "-")
         IN  IF Len(time_str_array) # 2
                   \/ ~IntOk(time_str_array[1]) \/ ~IntOk(time_str_array[2])
             THEN [raises |-> TRUE, time_array |-> <<>>]
             ELSE LET start_time == IntVal(time_str_array[1])
                      end_time == IntVal(time_str_array[2])
                  IN  [raises |-> FALSE,
                       time_array |-> [k \in 1..(end_time - start_time)
                                          |-> start_time + k - 1]]
    ELSE IF time_str # <<>>
         THEN [raises |-> FALSE, time_array |-> <<IntVal(time_str)>>]
         ELSE [raises |-> FALSE, time_array |-> <<0>>]

\* SpanTimes taking a residue it cannot read as naming no period
SpanTimes_lenient(time_str) ==
    IF Contains(time_str, <<"-">>)
    THEN LET time_str_array == Split(time_str, "-")
         IN  IF Len(time_str_array) # 2
                   \/ ~IntOk(time_str_array[1]) \/ ~IntOk(time_str_array[2])
             THEN [raises |-> FALSE, time_array |-> <<>>]
             ELSE LET start_time == IntVal(time_str_array[1])
                      end_time == IntVal(time_str_array[2])
                  IN  [raises |-> FALSE,
                       time_array |-> [k \in 1..(end_time + 1 - start_time)
                                          |-> start_time + k - 1]]
    ELSE IF time_str # <<>>
         THEN [raises |-> FALSE, time_array |-> <<IntVal(time_str)>>]
         ELSE [raises |-> FALSE, time_array |-> <<0>>]

\* time_array of one span (lines 214-227); [raises |-> TRUE] for the
\* ValueError of int() or of the two-name unpacking
SpanTimes(time_str) ==
    IF Contains(time_str, <<"-">>)
    THEN LET time_str_array == Split(time_str, "-")
         IN  IF Len(time_str_array) # 2
                   \/ ~IntOk(time_str_array[1]) \/ ~IntOk(time_str_array[2])
             THEN [raises |-> TRUE, time_array |-> <<>>]
             ELSE LET start_time == IntVal(time_str_array[1])
                      end_time == IntVal(time_str_array[2])
                  IN  [raises |-> FALSE,
                       time_array |-> [k \in 1..(end_time + 1 - start_time)
                                          |-> start_time + k - 1]]
    ELSE IF time_str # <<>>
         THEN [raises |-> FALSE, time_array |-> <<IntVal(time_str)>>]
         ELSE [raises |-> FALSE, time_array |-> <<0>>]

\* list indexing row[n] of a row of 8 entries: a negative n counts from the
\* end, n outside -8..7 raises IndexError
IndexInRange(n) == -NPeriods <= n /\ n < NPeriods

Column(n) == IF n < 0 THEN n + NPeriods ELSE n

\* the assignments of lines 229-232 on one grid; they raise IndexError when
\* some day meets a time whose column does not exist
MarkRaises(day_array, time_array) ==
    /\ Len(day_array) > 0
    /\ \E k \in 1..Len(time_array) : ~IndexInRange(time_array[k] - 1)

Mark(period, day_array, time_array) ==
    [i \in 1..NDays |-> [j \in 1..NPeriods |->
        \/ period[i][j]
        \/ /\ \E d \in 1..Len(day_array) : day_array[d] = i - 1
           /\ \E k \in 1..Len(time_array) : Column(time_array[k] - 1) = j - 1]]

\* SpanStep with day_array assigned from every span, also one without a weekday
SpanStep_no_carry(st, p) ==
    LET day_array == SpanDays(p)
        time_str == KeepDigitsHyphen(p)
        times == SpanTimes(time_str)
    IN  IF times.raises
        THEN [st EXCEPT !.exc = "ValueError"]
        ELSE IF Len(time_str) > 0 /\ MarkRaises(day_array, times.time_array)
        THEN [st EXCEPT !.exc = "IndexError"]
        ELSE [exc |-> "none",
              day_array |-> day_array,
              period |-> IF Len(time_str) > 0
                            THEN Mark(st.period, day_array, times.time_array)
                            ELSE st.period]

\* one pass of the loop over period_str_array (lines 204-232), from a state
\* [exc, day_array, period]
SpanStep(st, p) ==
    LET days == SpanDays(p)
        day_array == IF Len(days) > 0 THEN days ELSE st.day_array
        time_str == KeepDigitsHyphen(p)
        times == SpanTimes(time_str)
    IN  IF times.raises
        THEN [st EXCEPT !.exc = "ValueError"]
        ELSE IF Len(time_str) > 0 /\ MarkRaises(day_array, times.time_array)
        THEN [st EXCEPT !.exc = "IndexError"]
        ELSE [exc |-> "none",
              day_array |-> day_array,
              period |-> IF Len(time_str) > 0
                            THEN Mark(st.period, day_array, times.time_array)
                            ELSE st.period]

RECURSIVE SpanLoop(_, _)
SpanLoop(st, period_str_array) ==
    IF Len(period_str_array) = 0 \/ st.exc # "none" THEN st
    ELSE SpanLoop(SpanStep(st, Head(period_str_array)), Tail(period_str_array))

\* one pass of the loop over term_str_array (lines 192-232): the PeriodTable
\* of one clause, or the exception that leaves the loop
ClauseTable(term) ==
    LET st == SpanLoop([exc |-> "none", day_array |-> <<>>,
                        period |-> create_timetable], Split(term, ","))
    IN  [exc |-> st.exc,
         table |-> [focus |-> Contains(term, FOCUS_MARK),
                    negotiable |-> Contains(term, NEGOTIABLE_MARK),
                    asneeded |-> Contains(term, ASNEEDED_MARK),
                    period |-> st.period]]

RECURSIVE ClauseLoop(_, _)
ClauseLoop(acc, term_str_array) ==
    IF Len(term_str_array) = 0 \/ acc.exc # "none" THEN acc
    ELSE LET c == ClauseTable(Head(term_str_array))
         IN  ClauseLoop([exc |-> c.exc,
                         boolean_periods |-> Append(acc.boolean_periods, c.table)],
                        Tail(term_str_array))

\* lines 188-232: boolean_periods of a raw period string
BooleanPeriods(period_str) ==
    ClauseLoop([exc |-> "none", boolean_periods |-> <<>>], Split(period_str, " "))

----------------------------------------------------------------------------
(* Term engine, parse and normalize *)

\* CharStep numbering every sub-term letter from 0, whatever the season
CharStep_spring_only(st, char) ==
    LET season == IF In(<<char>>, SEASONS) THEN <<char>> ELSE st.season
        letter == IF season # <<>> /\ char \in {"A", "B", "C"}
                     THEN <<(IF char = "A" THEN 0
                             ELSE IF char = "B" THEN 1 ELSE 2)>>
                     ELSE <<>>
        vacation == IF season # <<>> /\ char = "Kyu"
                       THEN <<Index(SEASONS, season) + 6>>
                       ELSE <<>>
    IN  [season |-> season, group |-> st.group \o letter \o vacation]

\* CharStep naming the vacation after the season that was read
CharStep_vacation_of_season(st, char) ==
    LET season == IF In(<<char>>, SEASONS) THEN <<char>> ELSE st.season
        letter == IF season # <<>> /\ char \in {"A", "B", "C"}
                     THEN <<(IF season = <<"Haru">> THEN 0 ELSE 3)
                            + (IF char = "A" THEN 0
                               ELSE IF char = "B" THEN 1 ELSE 2)>>
                     ELSE <<>>
        vacation == IF season # <<>> /\ char = "Kyu"
                       THEN <<7 - Index(SEASONS, season)>>
                       ELSE <<>>
    IN  [season |-> season, group |-> st.group \o letter \o vacation]

\* the loop over char_array (lines 269-289), from a state [season, group];
\* season is a str, <<>> while no season symbol has been read
CharStep(st, char) ==
    LET season == IF In(<<char>>, SEASONS) THEN <<char>> ELSE st.season
        letter == IF season # <<>> /\ char \in {"A", "B", "C"}
                     THEN <<(IF season = <<"Haru">> THEN 0 ELSE 3)
                            + (IF char = "A" THEN 0
                               ELSE IF char = "B" THEN 1 ELSE 2)>>
                     ELSE <<>>
        vacation == IF season # <<>> /\ char = "Kyu"
                       THEN <<Index(SEASONS, season) + 6>>
                       ELSE <<>>
    IN  [season |-> season, group |-> st.group \o letter \o vacation]

RECURSIVE CharLoop(_, _)
CharLoop(st, char_array) ==
    IF Len(char_array) = 0 THEN st
    ELSE CharLoop(CharStep(st, Head(char_array)), Tail(char_array))

\* the loop over term_groups (lines 265-292), from a state [season, terms]
RECURSIVE GroupLoop(_, _)
GroupLoop(st, term_groups) ==
    IF Len(term_groups) = 0 THEN st
    ELSE LET g == CharLoop([season |-> st.season, group |-> <<>>],
                           Head(term_groups))
             module_group == [k \in 1..Len(g.group) |-> MODULE_LIST[g.group[k] + 1]]
         IN  GroupLoop([season |-> g.season,
                        terms |-> Append(st.terms, module_group)],
                       Tail(term_groups))

raw_module_to_terms(raw_module) ==
    GroupLoop([season |-> <<>>, terms |-> <<>>], Split(raw_module, " ")).terms

\* one pass of the loop of parsed_module (lines 75-96): the list that
\* replaces group v.  check_table is reached only behind any(table), so its
\* ValueError cannot leave this function.
NormalizedGroup(v) ==
    LET spring_table == [k \in 1..3 |->
                           \E n \in 1..Len(v) : v[n] = SPRING_MODULE_LIST[k]]
        fall_table == [k \in 1..3 |->
                         \E n \in 1..Len(v) : v[n] = FALL_MODULE_LIST[k]]
        special_module_list ==
            SelectSeq(v, LAMBDA w : ~In(w, SPRING_MODULE_LIST)
                                    /\ ~In(w, FALL_MODULE_LIST))
    IN  (IF AnyTrue(spring_table)
            THEN <<check_table(spring_table, <<"Haru">>)>> ELSE <<>>)
        \o (IF AnyTrue(fall_table)
               THEN <<check_table(fall_table, <<"Aki">>)>> ELSE <<>>)
        \o special_module_list

\* whether the ValueError of check_table leaves parsed_module: check_table
\* is called on a table (lines 88-91) only when any(table) holds
parsed_module_raises(module) ==
    \E i \in 1..Len(module) :
        LET spring_table == [k \in 1..3 |->
                \E n \in 1..Len(module[i]) : module[i][n] = SPRING_MODULE_LIST[k]]
            fall_table == [k \in 1..3 |->
                \E n \in 1..Len(module[i]) : module[i][n] = FALL_MODULE_LIST[k]]
        IN  \/ AnyTrue(spring_table) /\ check_table_raises(spring_table)
            \/ AnyTrue(fall_table) /\ check_table_raises(fall_table)

\* parsed_module with the two season tables and the special list created
\* once, before the loop over the groups, instead of once per group
parsed_module_shared_tables(module) ==
    [i \in 1..Len(module) |->
        NormalizedGroup(Join([k \in 1..i |-> module[k]]))]

\* the list parsed_module returns, which is the list it was given, every
\* element replaced in place (module = terms; module[i] = res)
parsed_module(module) == [i \in 1..Len(module) |-> NormalizedGroup(module[i])]

----------------------------------------------------------------------------
(* subject_to_class_dict *)

\* ParsedTerms giving the sentinel whenever every group is empty
ParsedTerms_all_empty(the_terms) ==
    IF \E k \in 1..Len(the_terms) : the_terms[k] # <<>>
    THEN parsed_module(the_terms)
    ELSE << <<YEAR_ROUND>> >>

\* line 235
ParsedTerms(the_terms) ==
    IF the_terms # << <<>> >> THEN parsed_module(the_terms)
    ELSE << <<YEAR_ROUND>> >>

\* RenderedPeriods with the clauses' token lists concatenated into one list
RenderedPeriods_flat(tables) ==
    Join([k \in 1..Len(tables) |-> parse_timetable(tables[k])])

\* line 234
RenderedPeriods(tables) == [k \in 1..Len(tables) |-> parse_timetable(tables[k])]

\* the exception that leaves subject_to_class_dict, or "none"
subject_to_class_dict_exc(subject) == BooleanPeriods(subject.period).exc

\* subject_to_class_dict with Class carrying both names as fields
subject_to_class_dict_both_names(lang, subject) ==
    [class_id |-> subject.class_id,
     name |-> subject.name,
     english_name |-> subject.english_name,
     module |-> ParsedTerms(raw_module_to_terms(subject.module)),
     period |-> RenderedPeriods(BooleanPeriods(subject.period).boolean_periods),
     room |-> IF subject.room # <<>> THEN subject.room ELSE <<" ">>,
     description |-> subject.remarks]

\* asdict(cls), lines 237-248
subject_to_class_dict(lang, subject) ==
    [class_id |-> subject.class_id,
     name |-> IF lang = "ja" THEN subject.name ELSE subject.english_name,
     module |-> ParsedTerms(raw_module_to_terms(subject.module)),
     period |-> RenderedPeriods(BooleanPeriods(subject.period).boolean_periods),
     room |-> IF subject.room # <<>> THEN subject.room ELSE <<" ">>,
     description |-> subject.remarks]

----------------------------------------------------------------------------
(* Bounds of the checked input sets *)

\* a rendered grid has at most MaxCells true cells
MaxCells == 2

\* a one-day period string lists at most MaxSpans period numbers
MaxSpans == 2

\* a period string over PeriodAlphabet has at most MaxPeriodLen characters
MaxPeriodLen == 4

\* a period string built from ClauseSamples has at most MaxClauses clauses
MaxClauses == 2

\* a term string over TermAlphabet has at most MaxTermLen characters
MaxTermLen == 4

\* a converted catalogue has at most MaxCourses courses
MaxCourses == 2

\* a term-group handed to parsed_module has at most MaxGroupLen symbols
MaxGroupLen == 3

----------------------------------------------------------------------------
(* Renderers called on their own: check_table and parse_timetable *)

Cells == (1..NDays) \X (1..NPeriods)

RECURSIVE CellSets(_)
CellSets(n) ==
    IF n = 0 THEN {{}}
    ELSE LET smaller == CellSets(n - 1)
         IN  smaller \cup {S \cup {c} : S \in smaller, c \in Cells}

GridOf(S) == [i \in 1..NDays |-> [j \in 1..NPeriods |-> <<i, j>> \in S]]

PeriodTables ==
    {[period |-> GridOf(S), focus |-> f, negotiable |-> n, asneeded |-> a] :
        S \in CellSets(MaxCells), f \in BOOLEAN, n \in BOOLEAN, a \in BOOLEAN}

SeasonTables == {<<a, b, c>> : a \in BOOLEAN, b \in BOOLEAN, c \in BOOLEAN}

InitRender ==
    /\ pc = "ready"
    /\ \/ /\ op = "parse_timetable"
          /\ \E t \in PeriodTables : args = [table |-> t]
       \/ /\ op = "check_table"
          /\ \E t \in SeasonTables, k \in 1..2 :
                args = [table |-> t, season |-> SEASONS[k]]
    /\ result = <<>>
    /\ exc = "none"
    /\ boolean_periods = <<>>
    /\ terms = <<>>
    /\ output_file = [written |-> FALSE]

Call_parse_timetable ==
    /\ pc = "ready"
    /\ op = "parse_timetable"
    /\ result' = parse_timetable(args.table)
    /\ pc' = "returned"
    /\ UNCHANGED <<op, args, exc, boolean_periods, terms, output_file>>

Call_check_table ==
    /\ pc = "ready"
    /\ op = "check_table"
    /\ IF check_table_raises(args.table)
          THEN /\ pc' = "raised"
               /\ exc' = "ValueError"
               /\ UNCHANGED result
          ELSE /\ pc' = "returned"
               /\ result' = check_table(args.table, args.season)
               /\ UNCHANGED exc
    /\ UNCHANGED <<op, args, boolean_periods, terms, output_file>>

NextRender == Call_parse_timetable \/ Call_check_table

SpecRender == InitRender /\ [][NextRender]_vars

----------------------------------------------------------------------------
(* subject_to_class_dict called on one course, the period field varying *)

\* the fields of Subject that subject_to_class_dict reads
SubjectOf(class_id, module, period) ==
    [class_id |-> class_id, name |-> <<"n">>, english_name |-> <<"e">>,
     module |-> module, period |-> period, room |-> <<>>, remarks |-> <<"r">>]

StringsOver(alphabet, n) == UNION {[1..k -> alphabet] : k \in 0..n}

RECURSIVE JoinWith(_, _)
JoinWith(parts, sep) ==
    IF Len(parts) = 1 THEN parts[1]
    ELSE parts[1] \o <<sep>> \o JoinWith(Tail(parts), sep)

\* a weekday, then 1..MaxSpans comma-separated one-digit period numbers
DayListInputs ==
    {WEEKDAY_LIST[d] \o JoinWith([k \in 1..Len(ps) |-> <<DigitChars[ps[k]]>>], ",") :
        d \in 1..NDays, ps \in UNION {[1..n -> 1..10] : n \in 1..MaxSpans}}

\* a weekday, then a range of two one-digit numbers
RangeInputs ==
    {WEEKDAY_LIST[d] \o <<DigitChars[a], "-", DigitChars[b]>> :
        d \in 1..NDays, a \in 1..10, b \in 1..10}

PeriodAlphabet == {"Mon", "Tue", "1", "2", "-", ",", "~", "X"}

ClauseSamples ==
    { <<"Mon", "1">>, <<"2">>, <<"Tue", "1", "-", "2">>, <<>>,
      FOCUS_MARK, NEGOTIABLE_MARK, ASNEEDED_MARK,
      <<"Mon", "1", ",", "X", "2">>,
      <<"Mon", "~", "Tue", "3", ",", "4">>,
      <<"Wed", "X", "~", "Thu", "5">> }

ClauseInputs ==
    {JoinWith(cs, " ") : cs \in UNION {[1..n -> ClauseSamples] : n \in 1..MaxClauses}}

PeriodInputs ==
    DayListInputs \cup RangeInputs \cup ClauseInputs
        \cup StringsOver(PeriodAlphabet, MaxPeriodLen)

Init ==
    /\ pc = "ready"
    /\ op = "subject_to_class_dict"
    /\ \E p \in PeriodInputs :
          args = [lang |-> "ja",
                  subject |-> SubjectOf(<<"G", "1">>, <<"Haru", "A", "B">>, p)]
    /\ result = <<>>
    /\ exc = "none"
    /\ boolean_periods = <<>>
    /\ terms = <<>>
    /\ output_file = [written |-> FALSE]

\* the call either returns asdict(cls) or is left by the exception of the
\* period loop; its locals are gone with its frame when it raises
Call_subject_to_class_dict ==
    /\ pc = "ready"
    /\ op = "subject_to_class_dict"
    /\ IF subject_to_class_dict_exc(args.subject) # "none"
          THEN /\ pc' = "raised"
               /\ exc' = subject_to_class_dict_exc(args.subject)
               /\ UNCHANGED <<result, boolean_periods>>
          ELSE /\ pc' = "returned"
               /\ result' = subject_to_class_dict(args.lang, args.subject)
               /\ boolean_periods' =
                     BooleanPeriods(args.subject.period).boolean_periods
               /\ UNCHANGED exc
    /\ UNCHANGED <<op, args, terms, output_file>>

Next == Call_subject_to_class_dict

Spec == Init /\ [][Next]_vars

----------------------------------------------------------------------------
(* The term engine: raw_module_to_terms then parsed_module called on their *)
(* own, and subject_to_class_dict with the module field varying            *)

TermAlphabet == {"Haru", "Aki", "A", "B", "C", "Kyu", " ", "X"}

TermSamples ==
    { YEAR_ROUND, SUMMER_BREAK, SPRING_BREAK,
      <<"Haru", "A", "B", "C", " ", "Aki", "A", "B", "C">>,
      <<"Aki", "C", " ", "Haru", "Ki", "Kyu", "Gyo", "Chu">> }

TermInputs == StringsOver(TermAlphabet, MaxTermLen) \cup TermSamples

InitTerms ==
    /\ pc = "ready"
    /\ \E m \in TermInputs :
          \/ /\ op = "raw_module_to_terms"
             /\ args = [raw_module |-> m]
          \/ /\ op = "subject_to_class_dict"
             /\ args = [lang |-> "ja",
                        subject |-> SubjectOf(<<"G", "1">>, m, <<"Mon", "1">>)]
    /\ result = <<>>
    /\ exc = "none"
    /\ boolean_periods = <<>>
    /\ terms = <<>>
    /\ output_file = [written |-> FALSE]

\* terms = raw_module_to_terms(raw_module)
Call_raw_module_to_terms ==
    /\ pc = "ready"
    /\ op = "raw_module_to_terms"
    /\ terms' = raw_module_to_terms(args.raw_module)
    /\ pc' = "parsed"
    /\ UNCHANGED <<op, args, result, exc, boolean_periods, output_file>>

\* parsed_module(terms): the list it returns is the list it was given
\* (module = terms), whose elements it has replaced
Call_parsed_module ==
    /\ pc = "parsed"
    /\ op \in {"raw_module_to_terms", "parsed_module"}
    /\ op' = "parsed_module"
    /\ IF parsed_module_raises(terms)
          THEN /\ pc' = "raised"
               /\ exc' = "ValueError"
               /\ UNCHANGED <<terms, result>>
          ELSE /\ pc' = "returned"
               /\ terms' = parsed_module(terms)
               /\ result' = parsed_module(terms)
               /\ UNCHANGED exc
    /\ UNCHANGED <<args, boolean_periods, output_file>>

NextTerms ==
    \/ Call_raw_module_to_terms
    \/ Call_parsed_module
    \/ Call_subject_to_class_dict

SpecTerms == InitTerms /\ [][NextTerms]_vars

----------------------------------------------------------------------------
(* parsed_module called on a list of term-groups of the vocabulary *)

\* a term-group: up to n symbols of MODULE_LIST
GroupsUpTo(n) == UNION {[1..k -> {MODULE_LIST[x] : x \in 1..8}] : k \in 0..n}

\* the lists handed to parsed_module: no group, one group, or a group next
\* to a group of at most one symbol
TermLists ==
    {<<>>} \cup {<<g>> : g \in GroupsUpTo(MaxGroupLen)}
        \cup {<<g, h>> : g \in GroupsUpTo(MaxGroupLen), h \in GroupsUpTo(1)}
        \cup {<<h, g>> : g \in GroupsUpTo(MaxGroupLen), h \in GroupsUpTo(1)}

\* the caller holds the list in terms and is about to call parsed_module(terms)
InitNormalize ==
    /\ pc = "parsed"
    /\ op = "parsed_module"
    /\ \E t \in TermLists : args = [terms |-> t] /\ terms = t
    /\ result = <<>>
    /\ exc = "none"
    /\ boolean_periods = <<>>
    /\ output_file = [written |-> FALSE]

NextNormalize == Call_parsed_module

SpecNormalize == InitNormalize /\ [][NextNormalize]_vars

----------------------------------------------------------------------------
(* convert_csv_to_twinc_json on the courses read from the input file *)

\* the exception that leaves the dict comprehension of lines 166-168: that
\* of the first course, in input order, whose conversion raises
RECURSIVE FirstExc(_)
FirstExc(subjects) ==
    IF Len(subjects) = 0 THEN "none"
    ELSE IF subject_to_class_dict_exc(Head(subjects)) # "none"
    THEN subject_to_class_dict_exc(Head(subjects))
    ELSE FirstExc(Tail(subjects))

\* classes (lines 166-168): a dict, so a later course replaces an earlier
\* one of the same class_id
Classes(lang, subjects) ==
    [id \in {subjects[k].class_id : k \in 1..Len(subjects)} |->
        LET last == CHOOSE k \in 1..Len(subjects) :
                       /\ subjects[k].class_id = id
                       /\ \A m \in (k + 1)..Len(subjects) : subjects[m].class_id # id
        IN  subject_to_class_dict(lang, subjects[last])]

CoursePeriods ==
    { <<"Mon", "1">>, FOCUS_MARK, <<"Mon", "9">>, <<"Mon", "1", "-">>,
      <<"Tue", "1", ",", "2", "-">> }

CourseModules == { <<"Haru", "A", "B">>, <<>> }

CourseIds == { <<"G", "1">>, <<"G", "2">> }

Courses ==
    {SubjectOf(id, m, p) : id \in CourseIds, m \in CourseModules, p \in CoursePeriods}

InitConvert ==
    /\ pc = "ready"
    /\ op = "convert_csv_to_twinc_json"
    /\ \E lang \in {"ja", "en"},
          subjects \in UNION {[1..n -> Courses] : n \in 0..MaxCourses} :
          args = [lang |-> lang, subjects |-> subjects]
    /\ result = <<>>
    /\ exc = "none"
    /\ boolean_periods = <<>>
    /\ terms = <<>>
    /\ output_file = [written |-> FALSE]

\* convert_csv_to_twinc_json with every course converted inside a
\* try/except that skips the course when it raises
Call_convert_skipping_failed ==
    /\ pc = "ready"
    /\ op = "convert_csv_to_twinc_json"
    /\ pc' = "returned"
    /\ output_file' =
          [written |-> TRUE,
           classes |-> Classes(args.lang,
                               SelectSeq(args.subjects,
                                         LAMBDA x : subject_to_class_dict_exc(x) = "none"))]
    /\ UNCHANGED <<op, args, result, exc, boolean_periods, terms>>

\* lines 163-173: the file is opened and written only after every course has
\* been converted; an exception of a conversion is not caught
Call_convert_csv_to_twinc_json ==
    /\ pc = "ready"
    /\ op = "convert_csv_to_twinc_json"
    /\ IF FirstExc(args.subjects) # "none"
          THEN /\ pc' = "raised"
               /\ exc' = FirstExc(args.subjects)
               /\ UNCHANGED output_file
          ELSE /\ pc' = "returned"
               /\ output_file' = [written |-> TRUE,
                                  classes |-> Classes(args.lang, args.subjects)]
               /\ UNCHANGED exc
    /\ UNCHANGED <<op, args, result, boolean_periods, terms>>

NextConvert == Call_convert_csv_to_twinc_json

SpecConvert == InitConvert /\ [][NextConvert]_vars

(***************************************************************************)
(* Properties                                                              *)
(***************************************************************************)

\* ordinal (0-based) of a weekday character, of a sub-term letter
DayOrd(c) == (CHOOSE k \in 1..NDays : WEEKDAY_LIST[k] = <<c>>) - 1

LetterOrd(c) == CHOOSE k \in 1..3 : (<<"A", "B", "C">>)[k] = c

\* the token of weekday ordinal i (0-based) and period number n in 1..9
DayPeriodToken(i, n) == <<WEEKDAY_LIST[i + 1][1], DigitChars[n + 1]>>

\* the cells of a grid that are true, as <<weekday ordinal, period number>>
TrueCells(period) ==
    {c \in (0..(NDays - 1)) \X (1..NPeriods) : period[c[1] + 1][c[2]]}

\* row-major rank of a weekday/period token
TokenRank(t) == NPeriods * DayOrd(t[1]) + DigitVal(t[2])

\* toks lists exactly the tokens of the cells, each once, row-major
RendersCells(toks, cells) ==
    /\ Len(toks) = Cardinality(cells)
    /\ \A k \in 1..Len(toks) :
          \E c \in cells : toks[k] = DayPeriodToken(c[1], c[2])
    /\ \A k \in 1..(Len(toks) - 1) : TokenRank(toks[k]) < TokenRank(toks[k + 1])

\* C3: rendering an all-false grid returns exactly one token, chosen by
\* priority: the intensive marker if the intensive flag is set, else the
\* negotiable marker if the negotiable flag is set, else the as-needed
\* marker (also when no flag is set).
C3_BlankGridMarker ==
    (op = "parse_timetable" /\ pc = "returned"
        /\ \A i \in 1..NDays, j \in 1..NPeriods : ~args.table.period[i][j])
    => /\ Len(result) = 1
       /\ args.table.focus => result[1] = FOCUS_MARK
       /\ (~args.table.focus /\ args.table.negotiable)
             => result[1] = NEGOTIABLE_MARK
       /\ (~args.table.focus /\ ~args.table.negotiable)
             => result[1] = ASNEEDED_MARK

C3_Witness ==
    /\ op = "parse_timetable" /\ pc = "returned"
    /\ args.table.period = create_timetable
    /\ args.table.focus /\ args.table.negotiable /\ args.table.asneeded
    /\ result = <<FOCUS_MARK>>

\* C4: rendering a grid with at least one true cell returns one token per
\* true cell (weekday symbol, then the 1-based period number), no duplicate,
\* no marker, weekday ascending and then period ascending, whatever the
\* three flags are.
C4_RowMajorTokens ==
    (op = "parse_timetable" /\ pc = "returned"
        /\ TrueCells(args.table.period) # {})
    => RendersCells(result, TrueCells(args.table.period))

C4_Witness ==
    /\ op = "parse_timetable" /\ pc = "returned"
    /\ TrueCells(args.table.period) = {<<0, 8>>, <<1, 1>>}
    /\ args.table.focus /\ ~args.table.negotiable /\ args.table.asneeded
    /\ result = << <<"Mon", "8">>, <<"Tue", "1">> >>

\* C5: check_table on a table with a true entry returns the season symbol
\* followed by exactly the letters of the true entries in the order A, B, C;
\* it raises ValueError, returning nothing, exactly when all three entries
\* are false.
C5_CheckTable ==
    (op = "check_table" /\ pc # "ready")
    => LET table == args.table
       IN  IF table[1] \/ table[2] \/ table[3]
           THEN /\ pc = "returned" /\ exc = "none"
                /\ result[1] = args.season[1]
                /\ Len(result) = 1 + Cardinality({k \in 1..3 : table[k]})
                /\ \A k \in 2..Len(result) :
                      /\ result[k] \in {"A", "B", "C"}
                      /\ table[LetterOrd(result[k])]
                /\ \A k \in 2..(Len(result) - 1) :
                      LetterOrd(result[k]) < LetterOrd(result[k + 1])
           ELSE pc = "raised" /\ exc = "ValueError" /\ result = <<>>

C5_Witness ==
    /\ op = "check_table" /\ pc = "returned"
    /\ args.table = <<TRUE, FALSE, TRUE>> /\ args.season = <<"Aki">>
    /\ result = <<"Aki", "A", "C">>

----------------------------------------------------------------------------
(* Properties of the period parse *)

Called == op = "subject_to_class_dict" /\ pc # "ready"

Returned == op = "subject_to_class_dict" /\ pc = "returned"

\* s is a weekday followed by comma-separated digits, each in 1..8
IsDayList(s) ==
    /\ Len(s) >= 2 /\ Len(s) % 2 = 0
    /\ In(<<s[1]>>, WEEKDAY_LIST)
    /\ \A k \in 2..Len(s) :
          IF k % 2 = 0 THEN IsDigit(s[k]) /\ DigitVal(s[k]) \in 1..NPeriods
          ELSE s[k] = ","

\* s is a weekday followed by "a-b" with 1 <= a <= b <= 8
IsDayRange(s) ==
    /\ Len(s) = 4
    /\ In(<<s[1]>>, WEEKDAY_LIST)
    /\ IsDigit(s[2]) /\ s[3] = "-" /\ IsDigit(s[4])
    /\ 1 <= DigitVal(s[2]) /\ DigitVal(s[2]) <= DigitVal(s[4])
    /\ DigitVal(s[4]) <= NPeriods

\* the one clause of the period string was parsed to a grid whose true cells
\* are exactly `cells`, and that grid was rendered to exactly their tokens
ParsedAndRendered(cells) ==
    /\ pc = "returned"
    /\ Len(boolean_periods) = 1
    /\ TrueCells(boolean_periods[1].period) = cells
    /\ Len(result.period) = 1
    /\ RendersCells(result.period[1], cells)

\* C1: a weekday d followed by comma-separated period numbers p1..pk, each
\* in 1..8, parses to the grid whose true cells are exactly (d,p1)..(d,pk)
\* and renders to exactly the tokens d+p of those periods, each once, in
\* ascending period order.
C1_DayListRoundTrip ==
    (Called /\ IsDayList(args.subject.period))
    => LET s == args.subject.period
       IN  ParsedAndRendered({<<DayOrd(s[1]), DigitVal(s[2 * k])>> :
                                 k \in 1..(Len(s) \div 2)})

C1_Witness ==
    /\ Returned
    /\ args.subject.period = <<"Mon", "1", ",", "2">>
    /\ TrueCells(boolean_periods[1].period) = {<<0, 1>>, <<0, 2>>}
    /\ result.period[1] = << <<"Mon", "1">>, <<"Mon", "2">> >>

\* C2: a weekday d followed by a range "a-b", 1 <= a <= b <= 8, parses to
\* exactly the b-a+1 cells (d,a)..(d,b), both ends included, and renders to
\* exactly d+a .. d+b in ascending order.
C2_RangeInclusive ==
    (Called /\ IsDayRange(args.subject.period))
    => LET s == args.subject.period
           cells == {DayOrd(s[1])} \X (DigitVal(s[2])..DigitVal(s[4]))
       IN  /\ ParsedAndRendered(cells)
           /\ Len(result.period[1]) = DigitVal(s[4]) - DigitVal(s[2]) + 1

C2_Witness ==
    /\ Returned
    /\ args.subject.period = <<"Mon", "1", "-", "3">>
    /\ result.period[1] = << <<"Mon", "1">>, <<"Mon", "2">>, <<"Mon", "3">> >>

\* a span with the text of its unrecognized pieces taken out: a piece is the
\* text between two day separators, recognized when its characters other
\* than digits and hyphens spell one weekday symbol
WithoutUnknownPiece(piece) ==
    IF In(StripDigitsHyphen(piece), WEEKDAY_LIST) THEN piece
    ELSE KeepDigitsHyphen(piece)

WithoutUnknownText(period_str) ==
    LET clause(c) ==
            LET span(p) ==
                    LET pieces == Split(p, "~")
                    IN  JoinWith([k \in 1..Len(pieces) |->
                                     WithoutUnknownPiece(pieces[k])], "~")
                spans == Split(c, ",")
            IN  JoinWith([k \in 1..Len(spans) |-> span(spans[k])], ",")
        clauses == Split(period_str, " ")
    IN  JoinWith([k \in 1..Len(clauses) |-> clause(clauses[k])], " ")

\* the weekday ordinals a span names, in order of appearance
RECURSIVE NamedDays(_)
NamedDays(pieces) ==
    IF Len(pieces) = 0 THEN <<>>
    ELSE (IF Len(Head(pieces)) = 1 /\ In(Head(pieces), WEEKDAY_LIST)
             THEN <<DayOrd(Head(pieces)[1])>> ELSE <<>>)
         \o NamedDays(Tail(pieces))

AllSpans(period_str) ==
    LET clauses == Split(period_str, " ")
    IN  UNION {{Split(clauses[c], ",")[k] : k \in 1..Len(Split(clauses[c], ","))} :
                  c \in 1..Len(clauses)}

HasNoDigitOrHyphen(s) == \A k \in 1..Len(s) : ~IsDigitOrHyphen(s[k])

\* C8: text between day separators that is no weekday symbol never raises
\* and is dropped: every span names exactly its recognized weekdays in order
\* of appearance, and the call ends the same way, with the same cells
\* marked in every clause, as on the period string without that text.
C8_UnknownTextDropped ==
    Called
    => LET s == args.subject.period
           clean == BooleanPeriods(WithoutUnknownText(s))
       IN  /\ \A p \in AllSpans(s) :
                 SpanDays(p) = NamedDays(Split(StripDigitsHyphen(p), "~"))
           /\ HasNoDigitOrHyphen(s) => pc = "returned"
           /\ pc = "raised" <=> clean.exc # "none"
           /\ pc = "raised" => exc = clean.exc
           /\ pc = "returned" =>
                 /\ Len(boolean_periods) = Len(clean.boolean_periods)
                 /\ \A k \in 1..Len(boolean_periods) :
                       boolean_periods[k].period = clean.boolean_periods[k].period

C8_Witness ==
    /\ Returned
    /\ args.subject.period = <<"Wed", "X", "~", "Thu", "5", " ", "Mon", "1", ",", "X", "2">>
    /\ TrueCells(boolean_periods[1].period) = {<<3, 5>>}
    /\ TrueCells(boolean_periods[2].period) = {<<0, 1>>, <<0, 2>>}

\* number of clauses of a raw period string
NClauses(period_str) ==
    1 + Cardinality({k \in 1..Len(period_str) : period_str[k] = " "})

\* C9 as stated: the period output is one flat sequence of tokens, the
\* concatenation of the clauses' render outputs in clause order.
C9_FlatTokenList ==
    Returned
    => result.period =
          Join([k \in 1..Len(boolean_periods) |->
                   parse_timetable(boolean_periods[k])])

\* C9 as amended: the period output has one element per clause, in clause
\* order, and element k is the list of tokens rendered from clause k (never
\* empty); the clauses' lists are not concatenated.
C9_PerClauseLists ==
    Returned
    => /\ Len(result.period) = NClauses(args.subject.period)
       /\ Len(boolean_periods) = NClauses(args.subject.period)
       /\ \A k \in 1..Len(result.period) :
             /\ Len(result.period[k]) >= 1
             /\ result.period[k] = parse_timetable(boolean_periods[k])

C9_Witness ==
    /\ Returned
    /\ args.subject.period = <<"Mon", "~", "Tue", "3", ",", "4", " ", "Shu", "Chu">>
    /\ result.period = << << <<"Mon", "3">>, <<"Mon", "4">>,
                             <<"Tue", "3">>, <<"Tue", "4">> >>,
                          << FOCUS_MARK >> >>

----------------------------------------------------------------------------
(* Properties of the term engine *)

OnlySpaces(s) == \A k \in 1..Len(s) : s[k] = " "

NSpaces(s) == Cardinality({k \in 1..Len(s) : s[k] = " "})

\* no group of the raw term string yields a module symbol
NoSymbol(s) ==
    \A k \in 1..Len(raw_module_to_terms(s)) : raw_module_to_terms(s)[k] = <<>>

\* C6 as stated: a term string of whitespace and empty groups only gives
\* exactly the year-round sentinel, however many empty groups it has.
C6_WhitespaceIsYearRound ==
    (Returned /\ OnlySpaces(args.subject.module))
    => result.module = << <<YEAR_ROUND>> >>

\* C6 as amended: when no group of the raw term string yields a symbol (the
\* empty string, strings of spaces), the term output is the year-round
\* sentinel exactly when the string holds no space, that is, is one empty
\* group; with k >= 1 spaces it is the k+1 empty groups, without sentinel.
C6_SentinelOnlyForOneEmptyGroup ==
    (Returned /\ NoSymbol(args.subject.module))
    => LET s == args.subject.module
       IN  IF NSpaces(s) = 0
           THEN result.module = << <<YEAR_ROUND>> >>
           ELSE /\ Len(result.module) = NSpaces(s) + 1
                /\ \A k \in 1..Len(result.module) : result.module[k] = <<>>

C6_Witness ==
    /\ Returned
    /\ args.subject.module = <<" ", " ">>
    /\ result.module = << <<>>, <<>>, <<>> >>

\* t is a season symbol followed by a non-empty subset of A, B, C in order
IsCanonicalToken(t) ==
    /\ Len(t) >= 2
    /\ t[1] \in {"Haru", "Aki"}
    /\ \A k \in 2..Len(t) : t[k] \in {"A", "B", "C"}
    /\ \A k \in 2..(Len(t) - 1) : LetterOrd(t[k]) < LetterOrd(t[k + 1])

\* C7: a canonical season token t, parsed again by raw_module_to_terms and
\* normalized by parsed_module, comes back as exactly [[t]].
C7_CanonicalTokenFixedPoint ==
    (op = "parsed_module" /\ pc = "returned"
        /\ IsCanonicalToken(args.raw_module))
    => result = << <<args.raw_module>> >>

C7_Witness ==
    /\ op = "parsed_module" /\ pc = "returned"
    /\ args.raw_module = <<"Aki", "A", "C">>
    /\ result = << << <<"Aki", "A", "C">> >> >>

----------------------------------------------------------------------------
(* Properties of the batch conversion *)

Converted == op = "convert_csv_to_twinc_json" /\ pc # "ready"

Fails(subject) == subject_to_class_dict_exc(subject) # "none"

\* C10 as stated: a course whose period field fails to parse is the only
\* one aborted: every other course of the input is converted and present in
\* the output, and the failing course leaves nothing in the output.
C10_OnlyFailingCourseAborted ==
    Converted
    => \A k \in 1..Len(args.subjects) :
          ~Fails(args.subjects[k])
          => /\ output_file.written
             /\ args.subjects[k].class_id \in DOMAIN output_file.classes

\* C10 as amended: an error raised while parsing one course's schedule
\* fields is not caught by convert_csv_to_twinc_json; it leaves the function
\* (the error of the first failing course, in input order), the output is
\* not written, and so no course of the input, failing or not, and no
\* partial grid or record is observable in it.  Only when no course fails
\* is the output written, with every course's class identifier as a key.
C10_FailureAbortsConversion ==
    Converted
    => IF \E k \in 1..Len(args.subjects) : Fails(args.subjects[k])
       THEN /\ pc = "raised"
            /\ ~output_file.written
            /\ LET first == CHOOSE k \in 1..Len(args.subjects) :
                               /\ Fails(args.subjects[k])
                               /\ \A m \in 1..(k - 1) : ~Fails(args.subjects[m])
               IN  exc = subject_to_class_dict_exc(args.subjects[first])
       ELSE /\ pc = "returned"
            /\ output_file.written
            /\ DOMAIN output_file.classes =
                  {args.subjects[k].class_id : k \in 1..Len(args.subjects)}

C10_Witness ==
    /\ Converted
    /\ pc = "raised"
    /\ Len(args.subjects) = 2
    /\ args.subjects[1].period = <<"Mon", "1">>
    /\ args.subjects[1].class_id = <<"G", "1">>
    /\ args.subjects[2].period = <<"Tue", "1", ",", "2", "-">>
    /\ args.subjects[2].class_id = <<"G", "2">>
    /\ exc = "ValueError"
    /\ ~output_file.written

----------------------------------------------------------------------------
(* Properties of parsed_module *)

\* C11: parsed_module does not change its argument: after it returns, the
\* list that was passed in holds the same groups with the same symbols in
\* the same order as before the call.
C11_ArgumentUnchanged ==
    (op = "parsed_module" /\ pc = "returned") => terms = args.terms

\* the token of one season for group v: none when v holds no sub-term of
\* the season, else the season symbol and the letters v holds, as A, B, C
SeasonToken(season, v) ==
    LET has(l) == \E n \in 1..Len(v) : v[n] = <<season, l>>
    IN  IF ~(has("A") \/ has("B") \/ has("C")) THEN <<>>
        ELSE << <<season>> \o (IF has("A") THEN <<"A">> ELSE <<>>)
                           \o (IF has("B") THEN <<"B">> ELSE <<>>)
                           \o (IF has("C") THEN <<"C">> ELSE <<>>) >>

Vacations(v) == SelectSeq(v, LAMBDA w : w = SUMMER_BREAK \/ w = SPRING_BREAK)

\* C15: parsed_module never raises and turns every group, on its own, into
\* at most one Spring token (present iff the group holds a Spring sub-term;
\* duplicates collapsed, letters in A, B, C order), then at most one Fall
\* token (likewise), then the group's vacation symbols verbatim, in their
\* order and multiplicity; the number and order of the groups is kept.
C15_GroupsNormalizedIndependently ==
    (op = "parsed_module" /\ pc # "parsed")
    => /\ pc = "returned" /\ exc = "none"
       /\ Len(result) = Len(args.terms)
       /\ \A i \in 1..Len(result) :
             result[i] = SeasonToken("Haru", args.terms[i])
                            \o SeasonToken("Aki", args.terms[i])
                            \o Vacations(args.terms[i])

C15_Witness ==
    /\ op = "parsed_module" /\ pc = "returned"
    /\ args.terms = << << SPRING_BREAK, <<"Aki", "B">>, <<"Haru", "C">> >>,
                       << <<"Haru", "A">> >> >>
    /\ result = << << <<"Haru", "C">>, <<"Aki", "B">>, SPRING_BREAK >>,
                   << <<"Haru", "A">> >> >>

----------------------------------------------------------------------------
(* Properties of the converted output *)

\* C12: when the conversion succeeds, for either language selector, the
\* output is a mapping keyed by the class identifiers of the input, and
\* every value is a record of exactly the 6 fields class_id, name,
\* description, module, period, room (name being the course's name of the
\* selected language).
C12_SixFieldRecords ==
    (Converted /\ pc = "returned")
    => /\ output_file.written
       /\ DOMAIN output_file.classes =
             {args.subjects[k].class_id : k \in 1..Len(args.subjects)}
       /\ \A id \in DOMAIN output_file.classes :
             LET rec == output_file.classes[id]
             IN  /\ DOMAIN rec = {"class_id", "name", "description",
                                  "module", "period", "room"}
                 /\ rec.class_id = id
                 /\ \E k \in 1..Len(args.subjects) :
                       /\ args.subjects[k].class_id = id
                       /\ rec.name = IF args.lang = "ja"
                                        THEN args.subjects[k].name
                                        ELSE args.subjects[k].english_name

C12_Witness ==
    /\ Converted /\ pc = "returned"
    /\ args.lang = "en"
    /\ Cardinality(DOMAIN output_file.classes) = 2
    /\ output_file.classes[<<"G", "2">>].name = <<"e">>
    /\ output_file.classes[<<"G", "2">>].period = << <<FOCUS_MARK>> >>

----------------------------------------------------------------------------
(* Properties of term parsing *)

\* the season symbol read last among the first k characters of s, <<>> if none
SeasonAt(s, k) ==
    LET P == {j \in 1..k : s[j] \in {"Haru", "Aki"}}
    IN  IF P = {} THEN <<>>
        ELSE <<s[CHOOSE j \in P : \A i \in P : i <= j]>>

\* the ordinal a character stands for under a season: a list of 0 or 1 numbers
OrdinalOf(season, char) ==
    IF season = <<>> THEN <<>>
    ELSE IF char \in {"A", "B", "C"}
            THEN <<(IF season = <<"Haru">> THEN 0 ELSE 3)
                   + (CASE char = "A" -> 0 [] char = "B" -> 1 [] char = "C" -> 2)>>
    ELSE IF char = "Kyu"
            THEN <<(IF season = <<"Haru">> THEN 6 ELSE 7)>>
    ELSE <<>>

\* the symbols the characters of s stand for, each under the season read
\* last in s up to it
SymbolsOf(s) ==
    Join([k \in 1..Len(s) |->
            LET o == OrdinalOf(SeasonAt(s, k), s[k])
            IN  [n \in 1..Len(o) |-> MODULE_LIST[o[n] + 1]]])

\* C13: the current season starts unset at the beginning of every
\* space-separated group, so each group of the result holds the symbols of
\* its own characters under the seasons read in that same group only.
C13_SeasonScopedPerGroup ==
    (op = "raw_module_to_terms" /\ pc = "parsed")
    => LET term_groups == Split(args.raw_module, " ")
       IN  terms = [i \in 1..Len(term_groups) |-> SymbolsOf(term_groups[i])]

\* C14: every symbol of every term-group is one of the 8 module-slot
\* symbols, and the symbols are, in order, those of the ordinals of the
\* characters read: season offset (0 or 3) plus letter offset for A, B, C,
\* season index plus 6 for the vacation character (SUMMER_BREAK under Haru,
\* SPRING_BREAK under Aki), nothing while no season has been read and nothing
\* for any other character.
C14_OrdinalSymbols ==
    (op = "raw_module_to_terms" /\ pc = "parsed")
    => /\ \A i \in 1..Len(terms) : \A n \in 1..Len(terms[i]) :
             \E x \in 1..8 : terms[i][n] = MODULE_LIST[x]
       /\ Len(terms) = Len(Split(args.raw_module, " "))
       /\ Join(terms) = SymbolsOf(args.raw_module)

C14_Witness ==
    /\ op = "raw_module_to_terms" /\ pc = "parsed"
    /\ args.raw_module = <<"Aki", "C", " ", "Haru", "Ki", "Kyu", "Gyo", "Chu">>
    /\ terms = << << <<"Aki", "C">> >>, << SUMMER_BREAK >> >>

----------------------------------------------------------------------------
(* Properties of period parsing: errors, day set, marked cells *)

\* the clauses of a period string, each as the list of its spans
SpansOf(period_str) ==
    LET clauses == Split(period_str, " ")
    IN  [c \in 1..Len(clauses) |-> Split(clauses[c], ",")]

Hyphens(r) == Cardinality({k \in 1..Len(r) : r[k] = "-"})

\* a digit-and-hyphen residue that is a number or a "start-end" pair
ValidResidue(r) ==
    \/ Hyphens(r) = 0
    \/ Hyphens(r) = 1 /\ r[1] # "-" /\ r[Len(r)] # "-"

\* the period numbers a span names
NamedPeriods(p) ==
    LET r == KeepDigitsHyphen(p)
        h == CHOOSE k \in 1..Len(r) : r[k] = "-"
    IN  IF r = <<>> \/ ~ValidResidue(r) THEN {}
        ELSE IF Hyphens(r) = 0 THEN {IntVal(r)}
        ELSE IntVal(SubSeq(r, 1, h - 1)) .. IntVal(SubSeq(r, h + 1, Len(r)))

\* the weekdays a span names, 0-based
SpanDaySet(p) ==
    LET named == NamedDays(Split(StripDigitsHyphen(p), "~"))
    IN  {named[k] : k \in 1..Len(named)}

\* the day set of span n of a clause: that of the latest span at or before
\* n that names a weekday, empty if there is none
CurrentDays(spans, n) ==
    LET P == {m \in 1..n : SpanDaySet(spans[m]) # {}}
    IN  IF P = {} THEN {}
        ELSE SpanDaySet(spans[CHOOSE m \in P : \A i \in P : i <= m])

\* C17: a span whose digit-and-hyphen residue is neither a number nor a
\* start-end pair makes subject_to_class_dict raise: the call never returns,
\* there is no record and no table of the cells of earlier spans; the
\* error is the ValueError of that span unless an earlier span named a
\* period beyond column 8.
C17_BadResidueRaises ==
    (/\ Called
     /\ \E p \in AllSpans(args.subject.period) :
           ~ValidResidue(KeepDigitsHyphen(p)))
    => /\ pc = "raised"
       /\ exc \in {"ValueError", "IndexError"}
       /\ (\A p \in AllSpans(args.subject.period) :
              \A t \in NamedPeriods(p) : t <= NPeriods) => exc = "ValueError"
       /\ result = <<>>
       /\ boolean_periods = <<>>

C17_Witness ==
    /\ Called
    /\ args.subject.period = <<"Mon", "1", ",", "-">>
    /\ pc = "raised"
    /\ exc = "ValueError"
    /\ result = <<>>

\* C18: after a call that returned, a cell (day d, period t) of a clause's
\* grid is true only if some span of that clause named period t while d was
\* in the current day set; a span naming period 0 marks no cell.
C18_OnlyNamedPeriodsMarked ==
    Returned
    => LET clauses == SpansOf(args.subject.period)
       IN  \A c \in 1..Len(boolean_periods) :
              \A cell \in TrueCells(boolean_periods[c].period) :
                 \E n \in 1..Len(clauses[c]) :
                    /\ cell[1] \in CurrentDays(clauses[c], n)
                    /\ cell[2] \in NamedPeriods(clauses[c][n])

\* C16: the day set is empty at the start of every clause, replaced by a
\* span that names a weekday and reused otherwise, so the cells of a
\* clause's grid are exactly, over its spans, the cross product of the
\* span's periods with the day set of the latest span at or before it that
\* named a weekday.
C16_CellsAreDaySetTimesPeriods ==
    Returned
    => LET clauses == SpansOf(args.subject.period)
       IN  /\ Len(boolean_periods) = Len(clauses)
           /\ \A c \in 1..Len(clauses) :
                 TrueCells(boolean_periods[c].period) =
                    UNION {CurrentDays(clauses[c], n) \X NamedPeriods(clauses[c][n]) :
                              n \in 1..Len(clauses[c])}

====
